---- MODULE Spec2Model ----
(***************************************************************************)
(* Mapping configuration of input-remapper                                 *)
(* (inputremapper/configs/mapping.py): the permissive UIMapping, the       *)
(* validated Mapping and the immutable MappingData, their pydantic         *)
(* validation pipeline (pre root validators, field validators, post root   *)
(* validators), validated assignment and the combination-changed callback. *)
(*                                                                         *)
(* Encoding.  Optional[T] is a set with at most one element: None is {},   *)
(* a value x is {x}.  A str is a sequence of one-character strings, so     *)
(* that str.strip() is computed.  An InputConfig is a record               *)
(* [type, code, analog_threshold]; an InputCombination is a non-empty      *)
(* sequence of them.  A model's __dict__ is a function from field names.   *)
(* The nine shaping fields (name, release_combination_keys,                *)
(* macro_key_sleep_ms, deadzone, gain, expo, rel_rate,                     *)
(* rel_to_abs_input_cutoff, release_timeout, force_release_timeout) are    *)
(* validated field-locally and are read by no validator of mapping.py;     *)
(* they are left out of the __dict__.                                      *)
(***************************************************************************)
EXTENDS Integers, Sequences, FiniteSets, TLC

VARIABLES
    cls,                  \* class of the object: "none", "UIMapping", "Mapping", "MappingData"
    fields,               \* the object's __dict__
    combination_changed,  \* the private attribute _combination_changed
    last                  \* the last call: operation, arguments, errors raised, callback calls

vars == <<cls, fields, combination_changed, last>>

(***************************************************************************)
(* Bounds of the model                                                     *)
(***************************************************************************)
\* longest input combination that is enumerated
MaxCombiLen == 2
\* number of distinct callbacks that can be registered
NumCallbacks == 2

(***************************************************************************)
(* Optional values and strings                                             *)
(***************************************************************************)
None == {}
Some(x) == {x}
Val(o) == CHOOSE x \in o : TRUE

\* bool(Optional[str]): None and "" are falsy
StrTruthy(o) == o # None /\ Val(o) # <<>>
\* bool(Optional[int]): None and 0 are falsy
IntTruthy(o) == o # None /\ Val(o) # 0

RECURSIVE LStrip(_)
LStrip(s) ==
    IF s # <<>> /\ Head(s) = " " THEN LStrip(Tail(s)) ELSE s

RECURSIVE RStrip(_)
RStrip(s) ==
    IF s # <<>> /\ s[Len(s)] = " " THEN RStrip(SubSeq(s, 1, Len(s) - 1)) ELSE s

\* str.strip()
Strip(s) == RStrip(LStrip(s))

Contains(s, c) == \E i \in 1..Len(s) : s[i] = c

(***************************************************************************)
(* Constants imported by mapping.py                                        *)
(***************************************************************************)
EV_KEY == 1
EV_REL == 2
EV_ABS == 3

KEY_MACRO == "key_macro"
ANALOG == "analog"
MappingTypes == {KEY_MACRO, ANALOG}

KnownUinputs == {"keyboard", "mouse", "gamepad", "keyboard + mouse"}

DISABLE_NAME == <<"d", "i", "s", "a", "b", "l", "e">>

(***************************************************************************)
(* Errors.  A ValidationError carries a set of errors; an error is its     *)
(* class name and the input configs it was raised with.                    *)
(***************************************************************************)
Err(name) == [name |-> name, configs |-> <<>>]
ErrWith(name, configs) == [name |-> name, configs |-> configs]
ErrNames(errs) == {e.name : e \in errs}

\* result of a validator: the errors raised (none: it returned) and the values
Ok(values) == [errs |-> {}, values |-> values]
Raise(e, values) == [errs |-> {e}, values |-> values]

(***************************************************************************)
(* External collaborators (not part of mapping.py)                         *)
(***************************************************************************)
\* InputConfig.defines_analog_input: an axis event without a trigger threshold
DefinesAnalogInput(c) == c.analog_threshold = None /\ c.type # EV_KEY

\* subsequence of the analog constituents, in order
RECURSIVE AnalogEvents(_)
AnalogEvents(combination) ==
    IF combination = <<>> THEN <<>>
    ELSE IF DefinesAnalogInput(Head(combination))
         THEN <<Head(combination)>> \o AnalogEvents(Tail(combination))
         ELSE AnalogEvents(Tail(combination))

\* InputCombination.find_analog_input_config(): the first analog constituent
FindAnalogInputConfig(combination) ==
    IF AnalogEvents(combination) = <<>> THEN None
    ELSE Some(Head(AnalogEvents(combination)))

\* InputCombination.empty_combination()
EmptyCombination == <<[type |-> 99, code |-> 99, analog_threshold |-> Some(99)]>>

\* InputCombination.validate(): an empty list of configs is a ValueError
InputCombinationValidate(value) ==
    IF value = <<>> THEN Raise(Err("ValueError"), value) ELSE Ok(value)

\* keyboard_layout.get(): the code of a symbol, None when unknown
KeyboardLayoutGet(symbol) ==
    IF symbol = <<"a">> THEN Some(30)
    ELSE IF symbol = <<"b">> THEN Some(48)
    ELSE IF symbol = DISABLE_NAME THEN Some(-1)
    ELSE None

\* GlobalUInputs.can_default_uinput_emit(target, type, code)
CanDefaultUinputEmit(target, type, code) ==
    \/ target \in {"keyboard", "keyboard + mouse"} /\ type = EV_KEY /\ code \in {30, 48}
    \/ target \in {"mouse", "keyboard + mouse"} /\ type = EV_KEY /\ code = 272

\* Parser.is_this_a_macro()
IsThisAMacro(output) ==
    \/ Contains(Strip(output), "+")
    \/ Contains(output, "(") /\ Contains(output, ")") /\ Len(output) >= 4

\* Parser.parse(): whether the macro parses; k(a) does, a macro naming an unknown key does not
ParserParseOk(symbol) == symbol = <<"k", "(", "a", ")">>

(***************************************************************************)
(* Field dictionaries                                                      *)
(***************************************************************************)
FieldNames == {"input_combination", "target_uinput", "output_symbol",
               "output_type", "output_code", "mapping_type"}

\* dict.get(key) for the Optional fields
Get(values, key) == IF key \in DOMAIN values THEN values[key] ELSE None

\* values[key] = x
Put(values, key, x) ==
    [k \in DOMAIN values \cup {key} |-> IF k = key THEN x ELSE values[k]]

\* del values[key]
Del(values, key) == [k \in DOMAIN values \ {key} |-> values[k]]

(***************************************************************************)
(* UIMapping: root validator                                               *)
(***************************************************************************)
\* variant of validate_mapping_type: the mapping_type is left as it was passed
validate_mapping_type_kept(values) == Ok(values)

\* variant of validate_mapping_type: analog for an explicit non-key type without a symbol
validate_mapping_type_by_type(values) ==
    LET output_type == Get(values, "output_type")
        output_code == Get(values, "output_code")
        output_symbol == Get(values, "output_symbol")
        v1 == IF output_type \notin {None, Some(EV_KEY)} /\ ~StrTruthy(output_symbol)
              THEN Put(values, "mapping_type", Some(ANALOG)) ELSE values
        v2 == IF output_type = None /\ output_code = None /\ StrTruthy(output_symbol)
              THEN Put(v1, "mapping_type", Some(KEY_MACRO)) ELSE v1
        v3 == IF output_type = Some(EV_KEY)
              THEN Put(v2, "mapping_type", Some(KEY_MACRO)) ELSE v2
    IN  Ok(v3)

\* UIMapping.validate_mapping_type: override mapping_type when the output is obvious
validate_mapping_type(values) ==
    LET output_type == Get(values, "output_type")
        output_code == Get(values, "output_code")
        output_symbol == Get(values, "output_symbol")
        v1 == IF output_type # Some(EV_KEY) /\ output_code # None /\ ~StrTruthy(output_symbol)
              THEN Put(values, "mapping_type", Some(ANALOG)) ELSE values
        v2 == IF output_type = None /\ output_code = None /\ StrTruthy(output_symbol)
              THEN Put(v1, "mapping_type", Some(KEY_MACRO)) ELSE v1
        v3 == IF output_type = Some(EV_KEY)
              THEN Put(v2, "mapping_type", Some(KEY_MACRO)) ELSE v2
    IN  Ok(v3)

(***************************************************************************)
(* Mapping: validators                                                     *)
(***************************************************************************)
\* Mapping.validate_symbol (pre root validator): normalise, parse, resolve the symbol
validate_symbol(values) ==
    LET symbol == Get(values, "output_symbol") IN
    IF symbol = Some(<<>>) THEN Ok(Put(values, "output_symbol", None))
    ELSE IF symbol = None THEN Ok(values)
    ELSE
      LET stripped == Strip(Val(symbol))
          v2 == Put(values, "output_symbol", Some(stripped))
      IN
      IF stripped = DISABLE_NAME THEN Ok(v2)
      ELSE IF IsThisAMacro(stripped)
      THEN (IF ParserParseOk(stripped) THEN Ok(v2) ELSE Raise(Err("MacroError"), v2))
      ELSE
        LET code == KeyboardLayoutGet(stripped)
            target == Get(values, "target_uinput")
        IN
        IF code = None THEN Raise(Err("OutputSymbolUnknownError"), v2)
        ELSE IF target # None /\ ~CanDefaultUinputEmit(Val(target), EV_KEY, Val(code))
        THEN Raise(Err("SymbolNotAvailableInTargetError"), v2)
        ELSE Ok(v2)

\* variant of only_one_analog_input: the analog constituents are not counted
only_one_analog_input_unchecked(combination) == Ok(combination)

\* Mapping.only_one_analog_input (validator of input_combination)
only_one_analog_input(combination) ==
    LET analog_events == AnalogEvents(combination) IN
    IF Len(analog_events) > 1
    THEN Raise(ErrWith("OnlyOneAnalogInputError", analog_events), combination)
    ELSE Ok(combination)

\* abs()
Abs(n) == IF n < 0 THEN 0 - n ELSE n

\* variant of TriggerPointOutOfRange: a threshold of exactly 100 is in range
TriggerPointAbove100(input_config) ==
    /\ input_config.type = EV_ABS
    /\ IntTruthy(input_config.analog_threshold)
    /\ Abs(Val(input_config.analog_threshold)) > 100

\* the condition of Mapping.trigger_point_in_range
TriggerPointOutOfRange(input_config) ==
    /\ input_config.type = EV_ABS
    /\ IntTruthy(input_config.analog_threshold)
    /\ Abs(Val(input_config.analog_threshold)) >= 100

\* Mapping.trigger_point_in_range (validator of input_combination): the first offender raises
trigger_point_in_range(combination) ==
    LET bad == {i \in 1..Len(combination) : TriggerPointOutOfRange(combination[i])} IN
    IF bad # {}
    THEN Raise(ErrWith("TriggerPointInRangeError",
                       <<combination[CHOOSE i \in bad : \A j \in bad : i <= j]>>), combination)
    ELSE Ok(combination)

\* Mapping.validate_output_symbol_variant: either type and code or symbol are set
validate_output_symbol_variant(values) ==
    LET o_symbol == Get(values, "output_symbol")
        o_type == Get(values, "output_type")
        o_code == Get(values, "output_code")
    IN
    IF o_symbol = None /\ (o_type = None \/ o_code = None)
    THEN Raise(Err("OutputSymbolVariantError"), values)
    ELSE Ok(values)

\* variant of validate_output_integrity: the type is compared only when a code is set
validate_output_integrity_code_first(values) ==
    LET symbol == Get(values, "output_symbol")
        type_ == Get(values, "output_type")
        code == Get(values, "output_code")
    IN
    IF symbol = None THEN Ok(values)
    ELSE IF type_ = None /\ code = None THEN Ok(values)
    ELSE IF IsThisAMacro(Val(symbol)) /\ (type_ # None \/ code # None)
    THEN Raise(Err("MacroButTypeOrCodeSetError"), values)
    ELSE IF code # None /\ (code # KeyboardLayoutGet(Val(symbol)) \/ type_ # Some(EV_KEY))
    THEN Raise(Err("SymbolAndCodeMismatchError"), values)
    ELSE Ok(values)

\* Mapping.validate_output_integrity
validate_output_integrity(values) ==
    LET symbol == Get(values, "output_symbol")
        type_ == Get(values, "output_type")
        code == Get(values, "output_code")
    IN
    IF symbol = None THEN Ok(values)
    ELSE IF type_ = None /\ code = None THEN Ok(values)
    ELSE IF IsThisAMacro(Val(symbol)) /\ (type_ # None \/ code # None)
    THEN Raise(Err("MacroButTypeOrCodeSetError"), values)
    ELSE IF (code # None /\ code # KeyboardLayoutGet(Val(symbol))) \/ type_ # Some(EV_KEY)
    THEN Raise(Err("SymbolAndCodeMismatchError"), values)
    ELSE Ok(values)

\* variant of output_matches_input: only the presence of the combination is asserted
output_matches_input_unchecked(values) ==
    IF "input_combination" \notin DOMAIN values
    THEN Raise(Err("AssertionError"), values)
    ELSE Ok(values)

\* Mapping.output_matches_input
output_matches_input(values) ==
    IF "input_combination" \notin DOMAIN values
    THEN Raise(Err("AssertionError"), values)
    ELSE
      LET combination == values["input_combination"]
          analog_input_config == FindAnalogInputConfig(combination)
          defines_analog_input == analog_input_config # None
          output_type == Get(values, "output_type")
          output_code == Get(values, "output_code")
          mapping_type == Get(values, "mapping_type")
          output_symbol == Get(values, "output_symbol")
          output_key_set == StrTruthy(output_symbol)
                            \/ (output_type = Some(EV_KEY) /\ IntTruthy(output_code))
      IN
      IF mapping_type = None THEN Ok(values)
      ELSE IF ~defines_analog_input /\ mapping_type # Some(KEY_MACRO)
      THEN Raise(Err("WrongMappingTypeForKeyError"), values)
      ELSE IF ~defines_analog_input /\ ~output_key_set
      THEN Raise(Err("MissingMacroOrKeyError"), values)
      ELSE IF /\ defines_analog_input
              /\ output_type \notin {Some(EV_ABS), Some(EV_REL)}
              /\ output_symbol # Some(DISABLE_NAME)
      THEN Raise(ErrWith("MissingOutputAxisError", <<Val(analog_input_config)>>), values)
      ELSE Ok(values)

(***************************************************************************)
(* The validation pipeline of the three classes                            *)
(***************************************************************************)
Classes == {"UIMapping", "Mapping", "MappingData"}

\* MappingData.message_type
MessageTypeMapping == "mapping"

\* the fields a class declares
FieldsOf(c) == IF c = "MappingData" THEN FieldNames \cup {"message_type"} ELSE FieldNames

\* Config of the class: MappingData uses ImmutableCfg, UIMapping and Mapping use Cfg
AllowMutation(c) == c # "MappingData"

\* root validators with pre=True, in order
PreRootValidators(c) == IF c = "Mapping" THEN <<"validate_symbol">> ELSE <<>>

\* root validators, base class first, in order of definition
PostRootValidators(c) ==
    IF c = "Mapping"
    THEN <<"validate_mapping_type", "validate_output_symbol_variant",
           "validate_output_integrity", "output_matches_input">>
    ELSE <<"validate_mapping_type">>

ApplyRootValidator(name, values) ==
    CASE name = "validate_symbol" -> validate_symbol(values)
      [] name = "validate_mapping_type" -> validate_mapping_type(values)
      [] name = "validate_output_symbol_variant" -> validate_output_symbol_variant(values)
      [] name = "validate_output_integrity" -> validate_output_integrity(values)
      [] name = "output_matches_input" -> output_matches_input(values)

\* pre root validators: the first that raises ends the validation with its error alone
RECURSIVE RunPreRoot(_, _)
RunPreRoot(validators, values) ==
    IF validators = <<>> THEN Ok(values)
    ELSE LET r == ApplyRootValidator(Head(validators), values) IN
         IF r.errs # {} THEN r ELSE RunPreRoot(Tail(validators), r.values)

\* post root validators: all run (skip_on_failure is not set), the errors are collected
RECURSIVE RunPostRoot(_, _, _)
RunPostRoot(validators, values, errs) ==
    IF validators = <<>> THEN [errs |-> errs, values |-> values]
    ELSE LET r == ApplyRootValidator(Head(validators), values) IN
         RunPostRoot(Tail(validators),
                     IF r.errs = {} THEN r.values ELSE values,
                     errs \cup r.errs)

\* validation of one field: its type, then the class's validators in order
ValidateField(c, name, value) ==
    IF name = "input_combination"
    THEN LET t == InputCombinationValidate(value) IN
         IF t.errs # {} \/ c # "Mapping" THEN t
         ELSE LET a == only_one_analog_input(t.values) IN
              IF a.errs # {} THEN a ELSE trigger_point_in_range(a.values)
    ELSE IF name = "target_uinput" /\ c = "Mapping"
    THEN (IF value = None \/ Val(value) \notin KnownUinputs
          THEN Raise(Err("TargetUinputError"), value) ELSE Ok(value))
    ELSE Ok(value)

\* BaseModel.__init__(**kwargs): validate_model
ValidateModel(c, kwargs) ==
    LET pre == RunPreRoot(PreRootValidators(c), kwargs) IN
    IF pre.errs # {} THEN [errs |-> pre.errs, values |-> kwargs]
    ELSE
      LET input == pre.values
          failed == {n \in FieldNames : ValidateField(c, n, input[n]).errs # {}}
          ferrs == UNION {ValidateField(c, n, input[n]).errs : n \in FieldNames}
          values == [n \in FieldsOf(c) \ failed |->
                       IF n = "message_type" THEN MessageTypeMapping
                       ELSE ValidateField(c, n, input[n]).values]
      IN  RunPostRoot(PostRootValidators(c), values, ferrs)

\* variant of ModelSetattr: assignment without validate_assignment
ModelSetattrUnvalidated(c, dict_, name, value) ==
    IF ~AllowMutation(c) THEN Raise(Err("TypeError"), dict_)
    ELSE Ok(Put(dict_, name, value))

\* BaseModel.__setattr__ under Cfg (validate_assignment) or ImmutableCfg (allow_mutation False)
ModelSetattr(c, dict_, name, value) ==
    IF ~AllowMutation(c) THEN Raise(Err("TypeError"), dict_)
    ELSE
      LET new_values == Put(dict_, name, value)
          pre == RunPreRoot(PreRootValidators(c), new_values)
          f == ValidateField(c, name, value)
          post == RunPostRoot(PostRootValidators(c), Put(pre.values, name, f.values), {})
      IN
      IF pre.errs # {} THEN [errs |-> pre.errs, values |-> dict_]
      ELSE IF f.errs # {} THEN [errs |-> f.errs, values |-> dict_]
      ELSE IF post.errs # {} THEN [errs |-> post.errs, values |-> dict_]
      ELSE Ok(post.values)

\* variant of MappingDataDict: the message_type is kept
MappingDataDictWithTag(dict_) == dict_

\* MappingData.dict(): will not include the message_type
MappingDataDict(dict_) ==
    IF "message_type" \in DOMAIN dict_ THEN Del(dict_, "message_type") ELSE dict_

\* self.dict() of the three classes
ModelDict(c, dict_) == IF c = "MappingData" THEN MappingDataDict(dict_) ELSE dict_

\* UIMapping.get_error(): the errors of Mapping(**self.dict())
get_error(c, dict_) == ValidateModel("Mapping", ModelDict(c, dict_)).errs

\* UIMapping.is_valid() and its override Mapping.is_valid()
is_valid(c, dict_) == IF c = "Mapping" THEN TRUE ELSE get_error(c, dict_) = {}

\* UIMapping.get_bus_message(): MappingData(**self.dict())
get_bus_message(c, dict_) == ValidateModel("MappingData", ModelDict(c, dict_))

\* UIMapping.get_output_type_code(): None, or the pair <<type, Optional code>>
get_output_type_code(dict_) ==
    IF dict_["output_code"] # None /\ dict_["output_type"] # None
    THEN Some(<<Val(dict_["output_type"]), dict_["output_code"]>>)
    ELSE IF StrTruthy(dict_["output_symbol"]) /\ ~IsThisAMacro(Val(dict_["output_symbol"]))
    THEN Some(<<EV_KEY, KeyboardLayoutGet(Val(dict_["output_symbol"]))>>)
    ELSE None

(***************************************************************************)
(* UIMapping.__setattr__: the combination-changed callback                 *)
(***************************************************************************)
\* one call of the callback: which callback, and its two arguments
CallbackCall(callback, new_combi, old_combi) ==
    [callback |-> callback, new |-> new_combi, old |-> old_combi]

\* variant of UIMappingSetattr: the combination is assigned before the callback is called
UIMappingSetattrAssignFirst(c, dict_, callback, key, value, raises) ==
    IF key # "input_combination" \/ callback = None
    THEN [calls |-> <<>>] @@ ModelSetattr(c, dict_, key, value)
    ELSE
      LET t == InputCombinationValidate(value)
          new_combi == t.values
          call == CallbackCall(Val(callback), new_combi, dict_["input_combination"])
          r == ModelSetattr(c, dict_, "input_combination", new_combi)
      IN
      IF t.errs # {}
      THEN [errs |-> {Err("ValidationError")}, values |-> dict_, calls |-> <<>>]
      ELSE IF new_combi = dict_["input_combination"]
      THEN [errs |-> {}, values |-> dict_, calls |-> <<>>]
      ELSE IF raises
      THEN [errs |-> {Err("KeyError")}, values |-> r.values, calls |-> <<call>>]
      ELSE [calls |-> <<call>>] @@ r

\* variant of UIMappingSetattr: the callback is called without comparing the combinations
UIMappingSetattrAlwaysCalls(c, dict_, callback, key, value, raises) ==
    IF key # "input_combination" \/ callback = None
    THEN [calls |-> <<>>] @@ ModelSetattr(c, dict_, key, value)
    ELSE
      LET t == InputCombinationValidate(value)
          new_combi == t.values
          call == CallbackCall(Val(callback), new_combi, dict_["input_combination"])
      IN
      IF t.errs # {}
      THEN [errs |-> {Err("ValidationError")}, values |-> dict_, calls |-> <<>>]
      ELSE IF raises
      THEN [errs |-> {Err("KeyError")}, values |-> dict_, calls |-> <<call>>]
      ELSE [calls |-> <<call>>] @@ ModelSetattr(c, dict_, "input_combination", new_combi)

\* UIMapping.__setattr__(key, value); `raises` is whether the callback, if called, raises
UIMappingSetattr(c, dict_, callback, key, value, raises) ==
    IF key # "input_combination" \/ callback = None
    THEN [calls |-> <<>>] @@ ModelSetattr(c, dict_, key, value)
    ELSE
      LET t == InputCombinationValidate(value)
          new_combi == t.values
          call == CallbackCall(Val(callback), new_combi, dict_["input_combination"])
      IN
      IF t.errs # {}
      THEN [errs |-> {Err("ValidationError")}, values |-> dict_, calls |-> <<>>]
      ELSE IF new_combi = dict_["input_combination"]
      THEN [errs |-> {}, values |-> dict_, calls |-> <<>>]
      ELSE IF raises
      THEN [errs |-> {Err("KeyError")}, values |-> dict_, calls |-> <<call>>]
      ELSE [calls |-> <<call>>] @@ ModelSetattr(c, dict_, "input_combination", new_combi)

(***************************************************************************)
(* Inputs                                                                  *)
(***************************************************************************)
InputConfig(type, code, analog_threshold) ==
    [type |-> type, code |-> code, analog_threshold |-> analog_threshold]

\* a key, analog axes, axes with a trigger threshold below, at and beyond the range
Configs == {InputConfig(EV_KEY, 30, None),
            InputConfig(EV_ABS, 0, None),
            InputConfig(EV_REL, 0, None),
            InputConfig(EV_ABS, 1, Some(99)),
            InputConfig(EV_ABS, 1, Some(100)),
            InputConfig(EV_ABS, 1, Some(-100)),
            InputConfig(EV_REL, 1, Some(100))}

NoRepeat(s) == \A i, j \in 1..Len(s) : i # j => s[i] # s[j]

\* the lists of distinct configs of length 1..n
CombinationsOver(S, n) ==
    UNION {{s \in [1..k -> S] : NoRepeat(s)} : k \in 1..n}

\* the values passed for each field when a mapping is constructed: every list of
\* configs up to MaxCombiLen, the empty combination and the empty list; symbols
\* that are absent, empty, blank, padded, unknown, known, disabled, macros
InitArgs ==
    [input_combination |-> CombinationsOver(Configs, MaxCombiLen) \cup {EmptyCombination, <<>>},
     target_uinput |-> {None, Some("keyboard"), Some("mouse")},
     output_symbol |-> {None, Some(<<>>), Some(<<" ">>), Some(<<"a">>), Some(<<" ", "a", " ">>),
                        Some(<<"z">>), Some(DISABLE_NAME),
                        Some(<<"k", "(", "a", ")">>), Some(<<"k", "(", "z", ")">>)},
     output_type |-> {None, Some(EV_KEY), Some(EV_REL), Some(EV_ABS)},
     output_code |-> {None, Some(0), Some(30)},
     mapping_type |-> {None, Some(KEY_MACRO), Some(ANALOG)}]

\* the values passed while the input combination of a mapping is edited
EditArgs ==
    [input_combination |-> {<<InputConfig(EV_KEY, 30, None)>>,
                            <<InputConfig(EV_ABS, 0, None)>>,
                            <<InputConfig(EV_ABS, 0, None), InputConfig(EV_REL, 0, None)>>,
                            <<InputConfig(EV_ABS, 1, Some(100))>>,
                            EmptyCombination,
                            <<>>},
     target_uinput |-> {Some("keyboard")},
     output_symbol |-> {None, Some(<<"a">>), Some(DISABLE_NAME)},
     output_type |-> {None, Some(EV_ABS)},
     output_code |-> {None, Some(0)},
     mapping_type |-> {None}]

\* the values passed while the output of a validated mapping is edited
MappingArgs ==
    [input_combination |-> {<<InputConfig(EV_KEY, 30, None)>>,
                            <<InputConfig(EV_ABS, 0, None)>>,
                            <<InputConfig(EV_ABS, 1, Some(100))>>,
                            <<>>},
     target_uinput |-> {None, Some("keyboard"), Some("mouse")},
     output_symbol |-> {None, Some(<<>>), Some(<<" ">>), Some(<<"a">>), Some(<<" ", "a", " ">>),
                        Some(<<"z">>), Some(DISABLE_NAME), Some(<<"k", "(", "a", ")">>)},
     output_type |-> {None, Some(EV_KEY), Some(EV_ABS)},
     output_code |-> {None, Some(0), Some(30)},
     mapping_type |-> {None, Some(KEY_MACRO), Some(ANALOG)}]

\* the values passed where only the output fields matter
OutputArgs ==
    [input_combination |-> {EmptyCombination},
     target_uinput |-> {None, Some("keyboard")},
     output_symbol |-> InitArgs.output_symbol,
     output_type |-> InitArgs.output_type,
     output_code |-> InitArgs.output_code,
     mapping_type |-> InitArgs.mapping_type]

\* the values passed while the output fields of an editable mapping are edited
KindArgs ==
    [input_combination |-> {EmptyCombination},
     target_uinput |-> {None},
     output_symbol |-> {None, Some(<<>>), Some(<<"a">>)},
     output_type |-> {None, Some(EV_KEY), Some(EV_REL), Some(EV_ABS)},
     output_code |-> {None, Some(0), Some(30)},
     mapping_type |-> {None, Some(KEY_MACRO), Some(ANALOG)}]

\* the keyword arguments drawn from a record of argument sets
KwargsOver(args) ==
    [input_combination : args.input_combination, target_uinput : args.target_uinput,
     output_symbol : args.output_symbol, output_type : args.output_type,
     output_code : args.output_code, mapping_type : args.mapping_type]

Callbacks == 1..NumCallbacks

(***************************************************************************)
(* The state machine: one object, from construction on                     *)
(***************************************************************************)
NoFields == <<>>

\* arguments and return values are kept by name: no arguments, no return value
Nothing == <<>>
\* one named argument or return value
Named(name, x) == [k \in {name} |-> x]

\* a call: the operation, the field assigned (or the class constructed), the
\* arguments by name, the errors it raised, the calls of the callback it made and
\* what it returned; raises is what the registered callback does if it is called
Call(op, key, args, errs, calls, ret) ==
    [op |-> op, key |-> key, args |-> args, errs |-> errs, calls |-> calls, ret |-> ret,
     raises |-> FALSE]

\* the value assigned by a call self.key = value
Assigned(call) == call.args[call.key]

Init ==
    /\ cls = "none"
    /\ fields = NoFields
    /\ combination_changed = None
    /\ last = Call("none", "", Nothing, {}, <<>>, Nothing)

\* c(**kwargs): UIMapping.__init__
Construct(c, kwargs) ==
    /\ last.op = "none"
    /\ LET r == ValidateModel(c, kwargs) IN
       /\ cls' = IF r.errs = {} THEN c ELSE "none"
       /\ fields' = IF r.errs = {} THEN r.values ELSE NoFields
       /\ last' = Call("init", c, kwargs, r.errs, <<>>, Nothing)
    /\ combination_changed' = None

\* self.key = value: UIMapping.__setattr__
SetAttr(key, value, raises) ==
    /\ cls # "none"
    /\ LET r == UIMappingSetattr(cls, fields, combination_changed, key, value, raises) IN
       /\ fields' = r.values
       /\ last' = [Call("setattr", key, Named(key, value), r.errs, r.calls, Nothing)
                   EXCEPT !.raises = raises]
    /\ UNCHANGED <<cls, combination_changed>>

\* the outcomes of the callback: it returns or raises; without a call there is none
CallbackOutcomes(key) ==
    IF key = "input_combination" /\ combination_changed # None THEN BOOLEAN ELSE {FALSE}

\* construction of an object of one of `classes` from arguments drawn from `args`
New(classes, args) ==
    /\ last.op = "none"
    /\ \E c \in classes, kwargs \in KwargsOver(args) : Construct(c, kwargs)

\* assignment of a value drawn from `args` to a field
Assign(args) ==
    /\ cls # "none"
    /\ \E key \in FieldNames : \E value \in args[key], raises \in CallbackOutcomes(key) :
           SetAttr(key, value, raises)

\* UIMapping.set_combination_changed_callback
set_combination_changed_callback(callback) ==
    /\ cls # "none"
    /\ combination_changed' = Some(callback)
    /\ last' = Call("set_combination_changed_callback", "", Named("callback", callback),
                    {}, <<>>, Nothing)
    /\ UNCHANGED <<cls, fields>>

SetCallback == \E callback \in Callbacks : set_combination_changed_callback(callback)

\* UIMapping.remove_combination_changed_callback
remove_combination_changed_callback ==
    /\ cls # "none"
    /\ combination_changed' = None
    /\ last' = Call("remove_combination_changed_callback", "", Nothing, {}, <<>>, Nothing)
    /\ UNCHANGED <<cls, fields>>

\* UIMapping.get_error and is_valid: the object is not changed
GetError ==
    /\ cls # "none"
    /\ last' = Call("get_error", "", Nothing, get_error(cls, fields), <<>>,
                    Named("is_valid", is_valid(cls, fields)))
    /\ UNCHANGED <<cls, fields, combination_changed>>

\* UIMapping.get_output_type_code
GetOutputTypeCode ==
    /\ cls # "none"
    /\ last' = Call("get_output_type_code", "", Nothing, {}, <<>>,
                    Named("get_output_type_code", get_output_type_code(fields)))
    /\ UNCHANGED <<cls, fields, combination_changed>>

\* UIMapping.get_bus_message: from here on the object is the returned MappingData
GetBusMessage ==
    /\ cls # "none"
    /\ LET r == get_bus_message(cls, fields) IN
       /\ r.errs = {}
       /\ cls' = "MappingData"
       /\ fields' = r.values
    /\ combination_changed' = None
    /\ last' = Call("get_bus_message", "", Nothing, {}, <<>>, Nothing)

\* editing the input combination of a mapping of any class, with callbacks
Next ==
    \/ New(Classes, EditArgs)
    \/ Assign(EditArgs)
    \/ SetCallback
    \/ remove_combination_changed_callback
    \/ GetError
    \/ GetBusMessage

Spec == Init /\ [][Next]_vars

\* editing a validated mapping
NextMapping ==
    \/ New({"Mapping"}, MappingArgs)
    \/ Assign(MappingArgs)
    \/ SetCallback
    \/ remove_combination_changed_callback
    \/ GetError
    \/ GetBusMessage

SpecMapping == Init /\ [][NextMapping]_vars

\* construction of a validated mapping over the wide argument sets, and its snapshot
NextInit ==
    \/ New({"Mapping"}, InitArgs)
    \/ SetCallback
    \/ GetBusMessage

SpecInit == Init /\ [][NextInit]_vars

\* the output of an editable mapping
NextOutput ==
    \/ New({"UIMapping"}, OutputArgs)
    \/ GetOutputTypeCode

SpecOutput == Init /\ [][NextOutput]_vars

\* the mapping_type of an editable mapping while its output is edited
NextKind ==
    \/ New({"UIMapping"}, KindArgs)
    \/ Assign(KindArgs)

SpecKind == Init /\ [][NextKind]_vars

(***************************************************************************)
(* Properties                                                              *)
(***************************************************************************)
IsSetCombination(call) == call.op = "setattr" /\ call.key = "input_combination"

\* C1: when a callback is registered and a combination different from the current
\* one is assigned and the callback raises, the caller receives the callback's
\* error, and the input combination and every other field, the class and the
\* registered callback are left as they were.
C1_RejectedChangeIsAtomic ==
    [][(/\ IsSetCombination(last')
        /\ combination_changed # None
        /\ InputCombinationValidate(Assigned(last')).errs = {}
        /\ Assigned(last') # fields["input_combination"]
        /\ last'.raises)
       => (/\ last'.errs = {Err("KeyError")}
           /\ fields' = fields
           /\ cls' = cls
           /\ combination_changed' = combination_changed)]_vars

\* C1 witness: an editable mapping whose callback was called and raised
C1_Witness ==
    /\ cls = "UIMapping"
    /\ IsSetCombination(last)
    /\ last.raises
    /\ Len(last.calls) = 1
    /\ last.errs = {Err("KeyError")}
    /\ Assigned(last) # fields["input_combination"]

\* C2: the callback is called only by an assignment to input_combination while a
\* callback is registered and the assigned combination differs from the current
\* one, once, and it is the callback registered last, with (new, old).  Assigning
\* the current combination, or assigning with no callback registered, calls
\* nothing, and an editable mapping then holds the assigned combination.
C2_CallbackOnlyOnChange ==
    [][/\ last'.calls # <<>> =>
            /\ IsSetCombination(last')
            /\ combination_changed # None
            /\ last'.calls = <<CallbackCall(Val(combination_changed), Assigned(last'),
                                            fields["input_combination"])>>
            /\ Assigned(last') # fields["input_combination"]
       /\ (/\ IsSetCombination(last')
           /\ InputCombinationValidate(Assigned(last')).errs = {}
           /\ (combination_changed = None \/ Assigned(last') = fields["input_combination"]))
          => /\ last'.calls = <<>>
             /\ cls = "UIMapping" =>
                    last'.errs = {} /\ fields'["input_combination"] = Assigned(last')]_vars

\* C2 witness: a callback is registered, the current combination was assigned to an
\* editable mapping and nothing was called
C2_Witness ==
    /\ cls = "UIMapping"
    /\ IsSetCombination(last)
    /\ combination_changed # None
    /\ last.calls = <<>>
    /\ last.errs = {}
    /\ fields["input_combination"] = Assigned(last)

\* C3 as stated: the fields of a validated mapping are those fixed at construction,
\* and validating them again succeeds.
C3_FieldsFixedAndValid ==
    [][(cls = "Mapping" /\ cls' = "Mapping")
       => (fields' = fields /\ get_error(cls', fields') = {})]_vars

\* C3 amended: the fields of a validated mapping are not fixed, an assignment that
\* passes the validation of assignments replaces them; in every state reached by
\* accepted and rejected assignments, validating the current fields again
\* (Mapping(**self.dict())) succeeds, so is_valid() returning True is never wrong.
C3_AlwaysValid ==
    cls = "Mapping" =>
        /\ get_error(cls, fields) = {}
        /\ is_valid(cls, fields) = (get_error(cls, fields) = {})

\* C3 witness: a validated mapping whose output symbol was replaced by an accepted
\* assignment, with a value that construction never stores
C3_Witness ==
    /\ cls = "Mapping"
    /\ last.op = "setattr"
    /\ last.key = "output_symbol"
    /\ last.errs = {}
    /\ Assigned(last) = Some(<<" ", "a", " ">>)
    /\ fields["output_symbol"] = Assigned(last)

\* the last call was Mapping(**kwargs); last.args are the keyword arguments
MappingInit == last.op = "init" /\ last.key = "Mapping"

\* errors of Mapping.validate_symbol, each reported alone
SymbolErrors == {"MacroError", "OutputSymbolUnknownError", "SymbolNotAvailableInTargetError"}

\* the validation ended in validate_symbol: its error is the only one reported
OnlySymbolError(errs) == Cardinality(errs) = 1 /\ ErrNames(errs) \subseteq SymbolErrors

\* C4 as stated: constructing a validated mapping from a combination with two or
\* more analog constituents always fails with OnlyOneAnalogInputError carrying the
\* analog constituents, whatever the output fields are.
C4_TwoAnalogAlwaysOnlyOneAnalogInputError ==
    (MappingInit /\ Len(AnalogEvents(last.args.input_combination)) > 1)
    => /\ cls = "none"
       /\ ErrWith("OnlyOneAnalogInputError", AnalogEvents(last.args.input_combination))
              \in last.errs

\* C4 amended: constructing a validated mapping from a combination with two or more
\* analog constituents always fails.  The failure contains OnlyOneAnalogInputError
\* carrying the analog constituents, unless the validation of the output symbol
\* fails first: then its error (MacroError, OutputSymbolUnknownError or
\* SymbolNotAvailableInTargetError) is the only one reported.  With no symbol, an
\* empty symbol or the disable symbol, OnlyOneAnalogInputError is always reported.
C4_TwoAnalogFails ==
    (MappingInit /\ Len(AnalogEvents(last.args.input_combination)) > 1)
    => /\ cls = "none"
       /\ \/ ErrWith("OnlyOneAnalogInputError", AnalogEvents(last.args.input_combination))
                \in last.errs
          \/ OnlySymbolError(last.errs) /\ StrTruthy(last.args.output_symbol)
       /\ last.args.output_symbol \in {None, Some(<<>>), Some(DISABLE_NAME)}
            => "OnlyOneAnalogInputError" \in ErrNames(last.errs)

\* C4 witness: two analog constituents and no output at all
C4_Witness ==
    /\ MappingInit
    /\ Len(AnalogEvents(last.args.input_combination)) = 2
    /\ last.args.output_symbol = None
    /\ last.args.output_type = None
    /\ last.args.output_code = None
    /\ "OnlyOneAnalogInputError" \in ErrNames(last.errs)
    /\ cls = "none"

\* EV_ABS constituents of a combination whose threshold magnitude is 100 or more
AbsOutOfRange(combination) ==
    {i \in 1..Len(combination) :
        /\ combination[i].type = EV_ABS
        /\ combination[i].analog_threshold # None
        /\ Abs(Val(combination[i].analog_threshold)) >= 100}

\* C5 as stated (its equivalent form): in every successfully constructed validated
\* mapping the threshold magnitude of every constituent, of any event class, is
\* strictly less than 100.
C5_EveryThresholdBelow100 ==
    cls = "Mapping" =>
        \A i \in 1..Len(fields["input_combination"]) :
            LET threshold == fields["input_combination"][i].analog_threshold IN
            threshold = None \/ Abs(Val(threshold)) < 100

\* C5 amended: the bound is on EV_ABS constituents only.  Constructing a validated
\* mapping whose combination has an EV_ABS constituent with a threshold of
\* magnitude >= 100 always fails; the failure contains TriggerPointInRangeError
\* carrying the first such constituent, unless the validation of the output symbol
\* failed first (its error is reported alone) or the combination has more than one
\* analog constituent (OnlyOneAnalogInputError is reported instead).  In every
\* successfully constructed validated mapping every EV_ABS threshold magnitude is
\* strictly less than 100.
C5_AbsThresholdBelow100 ==
    /\ cls = "Mapping" => AbsOutOfRange(fields["input_combination"]) = {}
    /\ (MappingInit /\ AbsOutOfRange(last.args.input_combination) # {}) =>
         LET combination == last.args.input_combination
             first == CHOOSE i \in AbsOutOfRange(combination) :
                          \A j \in AbsOutOfRange(combination) : i <= j
             raised == ErrWith("TriggerPointInRangeError", <<combination[first]>>)
                          \in last.errs
         IN  /\ cls = "none"
             /\ \/ raised
                \/ OnlySymbolError(last.errs) /\ StrTruthy(last.args.output_symbol)
                \/ /\ Len(AnalogEvents(combination)) > 1
                   /\ "OnlyOneAnalogInputError" \in ErrNames(last.errs)
             /\ (last.args.output_symbol = None /\ Len(AnalogEvents(combination)) <= 1)
                  => raised

\* C5 witness: a negative EV_ABS threshold of magnitude 100 was rejected
C5_Witness ==
    /\ MappingInit
    /\ cls = "none"
    /\ \E i \in AbsOutOfRange(last.args.input_combination) :
           /\ last.args.input_combination[i].analog_threshold = Some(0 - 100)
           /\ ErrWith("TriggerPointInRangeError", <<last.args.input_combination[i]>>)
                  \in last.errs

\* the arguments hold a combination that passes its validators and the symbol alone
SymbolAlone(kwargs, symbol) ==
    /\ ValidateField("Mapping", "input_combination", kwargs.input_combination).errs = {}
    /\ kwargs.output_symbol = Some(symbol)
    /\ kwargs.output_type = None
    /\ kwargs.output_code = None
    /\ kwargs.target_uinput = Some("keyboard")

\* C6: in every successfully constructed validated mapping, a combination that
\* defines an analog input has an axis output type (EV_ABS or EV_REL) or the disable
\* symbol, and a combination that does not has mapping_type key_macro and a symbol
\* or an EV_KEY code.  An analog input with the symbol "a" alone fails with
\* MissingOutputAxisError; an analog input, and an axis with a threshold, with the
\* disable symbol alone succeed; a key input with an axis type and a code and no
\* symbol fails with WrongMappingTypeForKeyError.
C6_OutputMatchesInput ==
    /\ cls = "Mapping" =>
         IF FindAnalogInputConfig(fields["input_combination"]) # None
         THEN \/ fields["output_type"] \in {Some(EV_ABS), Some(EV_REL)}
              \/ fields["output_symbol"] = Some(DISABLE_NAME)
         ELSE /\ fields["mapping_type"] = Some(KEY_MACRO)
              /\ \/ StrTruthy(fields["output_symbol"])
                 \/ fields["output_type"] = Some(EV_KEY) /\ fields["output_code"] # None
    /\ (MappingInit /\ SymbolAlone(last.args, <<"a">>)
           /\ FindAnalogInputConfig(last.args.input_combination) # None)
        => /\ cls = "none"
           /\ ErrWith("MissingOutputAxisError",
                      <<Val(FindAnalogInputConfig(last.args.input_combination))>>)
                  \in last.errs
    /\ (MappingInit /\ SymbolAlone(last.args, DISABLE_NAME))
        => /\ cls = "Mapping"
           /\ last.errs = {}
           /\ fields["output_symbol"] = Some(DISABLE_NAME)
    /\ (/\ MappingInit
        /\ ValidateField("Mapping", "input_combination", last.args.input_combination).errs = {}
        /\ FindAnalogInputConfig(last.args.input_combination) = None
        /\ last.args.output_symbol = None
        /\ last.args.output_type \in {Some(EV_ABS), Some(EV_REL)}
        /\ last.args.output_code # None)
        => /\ cls = "none"
           /\ Err("WrongMappingTypeForKeyError") \in last.errs

\* C6 witness: an analog input with the disable symbol was constructed
C6_Witness ==
    /\ MappingInit
    /\ cls = "Mapping"
    /\ FindAnalogInputConfig(fields["input_combination"]) # None
    /\ fields["output_symbol"] = Some(DISABLE_NAME)
    /\ fields["output_type"] = None

\* a symbol together with an explicit type and/or code
SymbolWithTypeOrCode(kwargs) ==
    /\ kwargs.output_symbol # None
    /\ Strip(Val(kwargs.output_symbol)) # <<>>
    /\ (kwargs.output_type # None \/ kwargs.output_code # None)

\* the both-set rule on the trimmed symbol: the error it names, if any
BothSetRule(kwargs) ==
    LET symbol == Strip(Val(kwargs.output_symbol)) IN
    IF IsThisAMacro(symbol) THEN {"MacroButTypeOrCodeSetError"}
    ELSE IF \/ (kwargs.output_code # None
                /\ kwargs.output_code # KeyboardLayoutGet(symbol))
            \/ kwargs.output_type # Some(EV_KEY)
    THEN {"SymbolAndCodeMismatchError"}
    ELSE {}

BothSetErrors == {"MacroButTypeOrCodeSetError", "SymbolAndCodeMismatchError"}

\* C7 as stated: when a symbol and a type and/or code are supplied together,
\* construction fails with MacroButTypeOrCodeSetError if the symbol is a macro, with
\* SymbolAndCodeMismatchError if the symbol is not a macro and the code differs
\* from the resolved code or the type is not EV_KEY, and the rule rejects nothing
\* else.
C7_BothSetRuleAlwaysReported ==
    (MappingInit /\ SymbolWithTypeOrCode(last.args))
    => /\ ErrNames(last.errs) \cap BothSetErrors = BothSetRule(last.args)
       /\ BothSetRule(last.args) # {} => cls = "none"

\* C7 amended: the both-set rule is applied after the validation of the symbol.
\* When the symbol is a macro that does not parse, is unknown, or cannot be emitted
\* by the target, construction fails with that error alone and neither both-set
\* error is reported.  Otherwise, for a symbol supplied with a type and/or code,
\* construction fails with MacroButTypeOrCodeSetError if the symbol is a macro, and
\* with SymbolAndCodeMismatchError if it is not a macro and the code differs from
\* the resolved code or the type is not EV_KEY (an absent type included); the rule
\* rejects nothing else, and it rejects nothing when no symbol or neither type nor
\* code is supplied.
C7_BothSetRuleAfterSymbol ==
    MappingInit =>
        IF validate_symbol(last.args).errs # {}
        THEN last.errs = validate_symbol(last.args).errs /\ cls = "none"
        ELSE IF SymbolWithTypeOrCode(last.args)
        THEN /\ ErrNames(last.errs) \cap BothSetErrors = BothSetRule(last.args)
             /\ BothSetRule(last.args) # {} => cls = "none"
        ELSE ErrNames(last.errs) \cap BothSetErrors = {}

\* C7 witness: a symbol with surrounding whitespace, EV_KEY and the code it
\* resolves to pass the rule
C7_Witness ==
    /\ MappingInit
    /\ cls = "Mapping"
    /\ last.args.output_symbol = Some(<<" ", "a", " ">>)
    /\ last.args.output_type = Some(EV_KEY)
    /\ last.args.output_code = Some(30)
    /\ fields["output_symbol"] = Some(<<"a">>)

\* C8 as stated: get_output_type_code never raises; it returns (output_type,
\* output_code) when both are set, otherwise (EV_KEY, resolved code) for a non-macro
\* symbol that keyboard_layout knows, and None in every other case, an unknown
\* symbol included.
C8_NoneForUnknownSymbol ==
    last.op = "get_output_type_code" =>
        LET output_type == fields["output_type"]
            output_code == fields["output_code"]
            output_symbol == fields["output_symbol"]
        IN
        /\ last.errs = {}
        /\ last.ret["get_output_type_code"] =
             IF output_type # None /\ output_code # None
             THEN Some(<<Val(output_type), output_code>>)
             ELSE IF /\ StrTruthy(output_symbol)
                     /\ ~IsThisAMacro(Val(output_symbol))
                     /\ KeyboardLayoutGet(Val(output_symbol)) # None
             THEN Some(<<EV_KEY, KeyboardLayoutGet(Val(output_symbol))>>)
             ELSE None

\* C9: for a constructed validated mapping v, get_bus_message() returns a
\* MappingData whose dict() has exactly the fields of the mapping (no message_type,
\* no callback); an editable mapping built from it is accepted, validating it
\* succeeds, and the validated mapping obtained has the same value as v in every
\* field.
C9_SnapshotRoundTrip ==
    [][(last'.op = "get_bus_message" /\ cls = "Mapping")
       => LET snapshot == ModelDict(cls', fields')
              editable == ValidateModel("UIMapping", snapshot)
              validated == ValidateModel("Mapping", ModelDict("UIMapping", editable.values))
          IN  /\ cls' = "MappingData"
              /\ combination_changed' = None
              /\ DOMAIN snapshot = FieldNames
              /\ editable.errs = {}
              /\ get_error("UIMapping", editable.values) = {}
              /\ validated.errs = {}
              /\ validated.values = fields]_vars

\* C9 witness: the snapshot taken of a validated mapping with a key or macro output
C9_Witness ==
    /\ cls = "MappingData"
    /\ last.op = "get_bus_message"
    /\ combination_changed = None
    /\ fields["message_type"] = MessageTypeMapping
    /\ fields["output_symbol"] = Some(<<"a">>)
    /\ fields["mapping_type"] = Some(KEY_MACRO)

\* C10 as stated: every successfully constructed validated mapping has no symbol
\* or a non-empty symbol without surrounding whitespace, and a symbol that is empty
\* after trimming is handled exactly like an absent symbol: construction has the
\* same outcome as with no symbol.
C10_EmptyAfterTrimIsAbsent ==
    /\ (cls = "Mapping" /\ fields["output_symbol"] # None)
        => /\ Val(fields["output_symbol"]) # <<>>
           /\ Strip(Val(fields["output_symbol"])) = Val(fields["output_symbol"])
    /\ (/\ MappingInit
        /\ last.args.output_symbol # None
        /\ Strip(Val(last.args.output_symbol)) = <<>>)
        => LET absent == ValidateModel("Mapping", [last.args EXCEPT !.output_symbol = None])
           IN  /\ last.errs = absent.errs
               /\ cls = "Mapping" => fields = absent.values

\* the mapping_type before the validation run by a call: the one passed at
\* construction, the one assigned, or the one the object holds
PreviousMappingType(call, dict_) ==
    IF call.op = "init" THEN call.args.mapping_type
    ELSE IF call.key = "mapping_type" THEN Assigned(call)
    ELSE dict_["mapping_type"]

\* an editable mapping was constructed, or one of its fields was assigned
Validated(call) == call.op \in {"init", "setattr"} /\ call.errs = {}

\* C11 as stated: mapping_type becomes analog exactly when an explicit non-key
\* output type is set without a symbol, key_macro when only a symbol is set or the
\* type is EV_KEY, and is otherwise left at its previous value.
C11_AnalogByTypeAlone ==
    [][(Validated(last') /\ cls' = "UIMapping")
       => LET output_type == fields'["output_type"]
              output_code == fields'["output_code"]
              output_symbol == fields'["output_symbol"]
          IN  fields'["mapping_type"] =
                IF output_type \notin {None, Some(EV_KEY)} /\ ~StrTruthy(output_symbol)
                THEN Some(ANALOG)
                ELSE IF \/ output_type = Some(EV_KEY)
                        \/ output_type = None /\ output_code = None
                             /\ StrTruthy(output_symbol)
                THEN Some(KEY_MACRO)
                ELSE PreviousMappingType(last', fields)]_vars

\* C11 amended: the derivation depends on the output code.  mapping_type becomes
\* key_macro when the type is EV_KEY, or when a non-empty symbol is set with neither
\* type nor code; it becomes analog when a code is set, no non-empty symbol is set
\* and the type is not EV_KEY (an absent type included); in every other case, a
\* non-key type without a code included, it is left at its previous value.
C11_AnalogNeedsCode ==
    [][(Validated(last') /\ cls' = "UIMapping")
       => LET output_type == fields'["output_type"]
              output_code == fields'["output_code"]
              output_symbol == fields'["output_symbol"]
          IN  fields'["mapping_type"] =
                IF output_type = Some(EV_KEY) THEN Some(KEY_MACRO)
                ELSE IF StrTruthy(output_symbol)
                THEN (IF output_type = None /\ output_code = None
                      THEN Some(KEY_MACRO) ELSE PreviousMappingType(last', fields))
                ELSE IF output_code # None THEN Some(ANALOG)
                ELSE PreviousMappingType(last', fields)]_vars

\* C11 witness: a code was assigned to an editable mapping without type and symbol,
\* and its mapping_type is analog
C11_Witness ==
    /\ cls = "UIMapping"
    /\ last.op = "setattr"
    /\ last.key = "output_code"
    /\ last.errs = {}
    /\ fields["output_code"] # None
    /\ fields["output_type"] = None
    /\ ~StrTruthy(fields["output_symbol"])
    /\ fields["mapping_type"] = Some(ANALOG)

\* C12: in every successfully constructed validated mapping mapping_type is set,
\* whatever mapping_type was passed: it is analog if and only if there is no symbol
\* and the output type is set and is not EV_KEY, and key_macro otherwise.
C12_MappingTypeMatchesOutput ==
    cls = "Mapping" =>
        /\ fields["mapping_type"] \in {Some(KEY_MACRO), Some(ANALOG)}
        /\ fields["mapping_type"] = Some(ANALOG)
             <=> /\ fields["output_symbol"] = None
                 /\ fields["output_type"] \notin {None, Some(EV_KEY)}

\* C12 witness: key_macro was passed with an axis output, the constructed mapping
\* is analog
C12_Witness ==
    /\ MappingInit
    /\ cls = "Mapping"
    /\ last.args.mapping_type = Some(KEY_MACRO)
    /\ last.args.output_type = Some(EV_ABS)
    /\ fields["mapping_type"] = Some(ANALOG)

\* C13 as stated: for a mapping of any class with a callback registered, whenever
\* an assignment to input_combination calls the callback and the callback returns,
\* the assignment is committed and input_combination is the new combination; the
\* callback is called at most once, and only with a well-formed combination.
C13_NotifiedChangeTakesEffect ==
    [][(IsSetCombination(last') /\ last'.calls # <<>> /\ ~last'.raises)
       => /\ Len(last'.calls) = 1
          /\ InputCombinationValidate(Assigned(last')).errs = {}
          /\ last'.errs = {}
          /\ fields'["input_combination"] = Assigned(last')]_vars

====
